---- MODULE Spec2Model ----
(***************************************************************************)
(* Model of the power-monitor host scripts:                                *)
(*   src/shutdown_monitor.py  the shutdown-signal monitor                  *)
(*   src/shutdown.py          the earlier, reduced variant                 *)
(*                                                                         *)
(* Time is held in integer milliseconds.  A Python value of s seconds      *)
(* (the argument of time.sleep, the Button's hold_time) is represented by  *)
(* the integer s * MsPerSec.  The program's statements take no time; time  *)
(* passes only while the program is inside time.sleep.                     *)
(*                                                                         *)
(* gpiozero is a library, not part of the repository.  Its Button is       *)
(* modelled by its documented behaviour: is_pressed is the pin's present   *)
(* level seen through active_state; an activation edge starts the hold     *)
(* timer, is_held becomes true once the pin has stayed active for          *)
(* hold_time, and a deactivation edge clears it.                           *)
(***************************************************************************)
EXTENDS Integers, Sequences, FiniteSets, TLC

(* ---------------- program constants ---------------- *)

kpkill_delay == "OPENCPN_PKILL_DELAY"
kpkill_user == "OPENCPN_USER"
shutdown_pin == 22
mcu_running_pin == 23
shutdown_pulse_minimum == 600
shutdown_wait_delay == 20
MsPerSec == 1000

(* the initial and the idle value of sleep_interval, in seconds *)
idle_sleep_seconds == 1

(* sys.exit(1) on a missing environment variable *)
config_exit_status == 1
(* variant: the exit after the poweroff command reports an error *)
poweroff_exit_error == config_exit_status

(* sys.exit(0) after the poweroff command *)
poweroff_exit_status == 0
(* the status of a Python process that dies of an uncaught exception *)
uncaught_exit_status == 1

(* ---------------- bounds of the model ---------------- *)

(* the continuous-active time is tracked exactly up to MaxSpan ms *)
MaxSpan == 660
(* the continuous-inactive time is tracked exactly up to MaxGap ms *)
MaxGap == 6
(* polls inside one inactive gap are counted up to MaxGapPolls *)
MaxGapPolls == 2

(* ---------------- helpers ---------------- *)

Min(a, b) == IF a < b THEN a ELSE b

(* variant: x / 1000 under Python 2, an integer division *)
DivInt1000(x) == (x \div 1000) * MsPerSec

(* x / 1000.0: milliseconds to (float) seconds, kept as an ms count *)
DivFloat1000(x) == (x * MsPerSec) \div 1000

(* variant: the argument of time.sleep taken as milliseconds *)
SleepArgAsMs(s) == s

(* a number of seconds handed to time.sleep, as an ms count *)
SecToMs(s) == s * MsPerSec

Digits == <<"0", "1", "2", "3", "4", "5", "6", "7", "8", "9">>
DigitVal(c) == (CHOOSE i \in 1..10 : Digits[i] = c) - 1
IsDigit(c) == \E i \in 1..10 : Digits[i] = c

RECURSIVE DigitsVal(_)
DigitsVal(s) ==
  IF s = <<>> THEN 0
  ELSE DigitsVal(SubSeq(s, 1, Len(s) - 1)) * 10 + DigitVal(s[Len(s)])

AllDigits(s) == Len(s) > 0 /\ \A i \in 1..Len(s) : IsDigit(s[i])

(* int(str): an optional sign and decimal digits; anything else raises *)
IntParses(s) ==
  \/ AllDigits(s)
  \/ Len(s) > 1 /\ s[1] \in {"-", "+"} /\ AllDigits(Tail(s))

IntOf(s) ==
  IF s[1] = "-" THEN 0 - DigitsVal(Tail(s))
  ELSE IF s[1] = "+" THEN DigitsVal(Tail(s))
  ELSE DigitsVal(s)

(* an optional value: <<>> is Python's "not assigned", <<x>> holds x *)
Nil == <<>>
Some(x) == <<x>>
Val(o) == o[1]

(* the strings the two environment variables are drawn from *)
DelayValues == {<<"x">>, <<"-", "1">>, <<"0">>, <<"1">>}
UserValues == {<<>>, <<"p", "i">>}

(* os.environ restricted to the two keys: any subset of them may be set *)
Environments ==
  UNION { [K -> DelayValues \cup UserValues] :
            K \in SUBSET {kpkill_delay, kpkill_user} }

WellTyped(env) ==
  /\ kpkill_delay \in DOMAIN env => env[kpkill_delay] \in DelayValues
  /\ kpkill_user \in DOMAIN env => env[kpkill_user] \in UserValues

(* os.environ.has_key(k) under Python 2 *)
has_key(env, k) == k \in DOMAIN env

(* the observer records a completed active span exactly when its length is
   one of the lengths the scenarios speak of, and as 0 otherwise *)
ScenarioSpans == {300, shutdown_pulse_minimum - 1, 650}
Recorded(n) == IF n \in ScenarioSpans THEN n ELSE 0

(* what preceded an active span, as the observer classifies it:
     "short":   a span one ms short of the hold time, then a gap in which
                exactly one poll sampled the line
     "bounce":  a span of 300 ms, then a gap of 5 ms no poll fell into
     "bounce_polled": the same, with a poll inside the gap
     "other":   anything else *)
Classify(span, gap, polls) ==
  IF span = shutdown_pulse_minimum - 1 /\ polls = 1 THEN "short"
  ELSE IF span = 300 /\ gap = 5
       THEN (IF polls = 0 THEN "bounce" ELSE "bounce_polled")
       ELSE "other"

(* line edges are placed on a grid of Quantum ms counted from the last
   event, and also exactly one ms before the hold time is reached *)
Quantum == shutdown_wait_delay \div 4

VARIABLES
  script,               \* which script is run
  interp,               \* the Python major version running it
  environ,              \* os.environ, restricted to the two keys
  pc,                   \* the statement the process is at
  opencpn_pkill_delay,  \* optional: int(os.environ[kpkill_delay])
  opencpn_user,         \* optional: os.environ[kpkill_user]
  shutdown_button,      \* "none" | "open": the gpiozero.Button
  pin,                  \* electrical level of GPIO shutdown_pin: 0 | 1
  held,                 \* Button: _held_from is not None
  holdLeft,             \* optional: ms the Button hold timer still waits
  running_device,       \* "none" | "open": the DigitalOutputDevice
  running_level,        \* level driven on GPIO mcu_running_pin: 0 | 1
  sleep_interval,       \* ms
  sleepLeft,            \* ms left of the time.sleep in progress
  sample,               \* what the last poll found
  triggers,             \* times the shutdown sequence was entered
  pkills,               \* pkill commands issued
  pkill_status,         \* optional: result of the pkill command
  graces,               \* grace sleeps completed
  poweroffs,            \* poweroff commands issued
  poweroff_status,      \* optional: result of the poweroff command
  exit_status,          \* optional: the process exit status
  activeMs,             \* observer: ms the line has been continuously active
  gapMs,                \* observer: ms the line has been continuously inactive
  gapPolls,             \* observer: polls taken in the present/last gap
  lastSpan,             \* observer: Recorded length of the last active span
  before,               \* observer: Classify of what preceded the present span
  graceMs               \* observer: ms spent in the grace sleep of line 58

vars == <<script, interp, environ, pc, opencpn_pkill_delay, opencpn_user,
          shutdown_button, pin, held, holdLeft, running_device, running_level,
          sleep_interval, sleepLeft, sample, triggers, pkills, pkill_status,
          graces, poweroffs, poweroff_status, exit_status,
          activeMs, gapMs, gapPolls, lastSpan, before, graceMs>>

progVars == <<pc, opencpn_pkill_delay, opencpn_user, shutdown_button,
              running_device, running_level, sleep_interval, sample,
              triggers, pkills, pkill_status, graces, poweroffs,
              poweroff_status, exit_status>>
cfgVars == <<script, interp, environ>>
obsVars == <<activeMs, gapMs, gapPolls, lastSpan, before, graceMs>>
lineVars == <<pin, held, holdLeft>>
seqVars == <<triggers, pkills, pkill_status, graces, poweroffs, poweroff_status>>


(* ---------------- the gpiozero devices ---------------- *)

(* variant: the Button opened active-high *)
active_state_high == TRUE

(* Button(..., active_state=False): the pin is active when it reads low *)
active_state == FALSE
IsActive(level) == (level = 1) = active_state

(* variant: hold_time=shutdown_pulse_minimum/1000, an integer division *)
hold_time_intdiv == DivInt1000(shutdown_pulse_minimum)

(* Button(..., hold_time=shutdown_pulse_minimum/1000.0), as an ms count *)
hold_time == DivFloat1000(shutdown_pulse_minimum)

(* shutdown_button.is_pressed, shutdown_button.is_held *)
is_pressed == IsActive(pin)
is_held == held

(* the line and the observers after d ms without an edge *)
HoldFires(d) == holdLeft # Nil /\ Val(holdLeft) <= d
AfterMs(d) ==
  [activeMs |-> IF IsActive(pin) THEN Min(activeMs + d, MaxSpan) ELSE 0,
   gapMs    |-> IF IsActive(pin) THEN 0 ELSE Min(gapMs + d, MaxGap),
   held     |-> held \/ HoldFires(d),
   holdLeft |-> IF holdLeft = Nil \/ HoldFires(d) THEN Nil
                ELSE Some(Val(holdLeft) - d)]

(* the time spent in the grace sleep once d more ms have passed *)
GraceAfter(d) == IF pc = "grace" THEN graceMs + d ELSE graceMs

(* d ms pass and no edge occurs *)
Elapse(d) ==
  /\ graceMs' = GraceAfter(d)
  /\ activeMs' = AfterMs(d).activeMs
  /\ gapMs' = AfterMs(d).gapMs
  /\ held' = AfterMs(d).held
  /\ holdLeft' = AfterMs(d).holdLeft
  /\ UNCHANGED <<pin, gapPolls, lastSpan, before>>

(* variant: the activation edge starts no hold timer (a Button given no
   usable hold_time) *)
ActivatedNoTimer(d) ==
  /\ held' = FALSE
  /\ holdLeft' = Nil
  /\ before' = Classify(lastSpan, AfterMs(d).gapMs, gapPolls)
  /\ activeMs' = 0
  /\ gapMs' = 0
  /\ UNCHANGED <<gapPolls, lastSpan>>

(* the Button's reaction to an activation edge: the hold timer starts *)
Activated(d) ==
  /\ held' = (hold_time = 0)
  /\ holdLeft' = IF hold_time = 0 THEN Nil ELSE Some(hold_time)
  /\ before' = Classify(lastSpan, AfterMs(d).gapMs, gapPolls)
  /\ activeMs' = 0
  /\ gapMs' = 0
  /\ UNCHANGED <<gapPolls, lastSpan>>

(* the Button's reaction to a deactivation edge: the held state is cleared *)
Deactivated(d) ==
  /\ held' = FALSE
  /\ holdLeft' = Nil
  /\ lastSpan' = Recorded(AfterMs(d).activeMs)
  /\ activeMs' = 0
  /\ gapMs' = 0
  /\ gapPolls' = 0
  /\ UNCHANGED before

Sleeping == pc \in {"sleep", "grace"}

(* the delays after which the line may change during the present sleep *)
EdgeDelays ==
  IF Sleeping
  THEN {d \in 0..(sleepLeft - 1) :
          \/ d % Quantum = 0
          \/ IsActive(pin) /\ activeMs + d = shutdown_pulse_minimum - 1}
  ELSE {0}

(* the shutdown line changes level d ms from now.  The line is at rest
   (inactive) when the Button is opened and changes only afterwards; the
   Button sees every edge (no bounce_time is given at lines 38-41). *)
PinEdge ==
  /\ shutdown_button = "open"
  /\ pc # "exited"
  /\ \E d \in EdgeDelays :
       /\ pin' = 1 - pin
       /\ sleepLeft' = sleepLeft - d
       /\ graceMs' = GraceAfter(d)
       /\ IF IsActive(1 - pin) THEN Activated(d) ELSE Deactivated(d)
  /\ UNCHANGED <<cfgVars, progVars>>

(* ---------------- src/shutdown.py ---------------- *)

(* line 37, main(sys.args): the sys module has no attribute args, so the
   AttributeError ends the process before main is entered *)
ShutdownPyMainCall ==
  /\ script = "shutdown.py"
  /\ pc = "main_call"
  /\ pc' = "exited"
  /\ exit_status' = Some(uncaught_exit_status)
  /\ UNCHANGED <<cfgVars, lineVars, obsVars, sleepLeft, opencpn_pkill_delay,
                 opencpn_user, shutdown_button, running_device, running_level,
                 sleep_interval, sample, seqVars>>

(* ---------------- src/shutdown_monitor.py: startup ---------------- *)

(* the process ends with the given status *)
Exit(status) ==
  /\ pc' = "exited"
  /\ exit_status' = Some(status)

(* lines 26-30.  dict.has_key exists in Python 2 only: under Python 3 the
   call raises AttributeError.  int() raises ValueError on a non-number. *)
GetPkillDelay ==
  /\ script = "shutdown_monitor.py"
  /\ pc = "env_delay"
  /\ IF interp = "py3"
     THEN Exit(uncaught_exit_status) /\ UNCHANGED opencpn_pkill_delay
     ELSE IF has_key(environ, kpkill_delay)
     THEN IF IntParses(environ[kpkill_delay])
          THEN /\ opencpn_pkill_delay' = Some(IntOf(environ[kpkill_delay]))
               /\ pc' = "env_user"
               /\ UNCHANGED exit_status
          ELSE Exit(uncaught_exit_status) /\ UNCHANGED opencpn_pkill_delay
     ELSE Exit(config_exit_status) /\ UNCHANGED opencpn_pkill_delay
  /\ UNCHANGED <<cfgVars, lineVars, obsVars, sleepLeft, opencpn_user,
                 shutdown_button, running_device, running_level,
                 sleep_interval, sample, seqVars>>

(* variant of lines 31-35: the sys.exit(1) of line 35 is left out *)
GetPkillUserNoExit ==
  /\ pc = "env_user"
  /\ opencpn_user' = IF has_key(environ, kpkill_user)
                     THEN Some(environ[kpkill_user]) ELSE Nil
  /\ pc' = "open_button"
  /\ UNCHANGED <<cfgVars, lineVars, obsVars, sleepLeft, opencpn_pkill_delay,
                 shutdown_button, running_device, running_level,
                 sleep_interval, sample, seqVars, exit_status>>

(* lines 31-35 *)
GetPkillUser ==
  /\ pc = "env_user"
  /\ IF has_key(environ, kpkill_user)
     THEN /\ opencpn_user' = Some(environ[kpkill_user])
          /\ pc' = "open_button"
          /\ UNCHANGED exit_status
     ELSE Exit(config_exit_status) /\ UNCHANGED opencpn_user
  /\ UNCHANGED <<cfgVars, lineVars, obsVars, sleepLeft, opencpn_pkill_delay,
                 shutdown_button, running_device, running_level,
                 sleep_interval, sample, seqVars>>

(* lines 38-41: the Button is opened, or gpiozero raises *)
OpenShutdownButton ==
  /\ pc = "open_button"
  /\ \/ /\ shutdown_button' = "open"
        /\ pc' = "open_running"
        /\ UNCHANGED exit_status
     \/ Exit(uncaught_exit_status) /\ UNCHANGED shutdown_button
  /\ UNCHANGED <<cfgVars, lineVars, obsVars, sleepLeft, opencpn_pkill_delay,
                 opencpn_user, running_device, running_level,
                 sleep_interval, sample, seqVars>>

(* variant of lines 44-46: the error of opening the output device is
   caught and ignored *)
OpenRunningDeviceErrorIgnored ==
  /\ pc = "open_running"
  /\ \/ /\ running_device' = "open"
        /\ running_level' = 1
     \/ UNCHANGED <<running_device, running_level>>
  /\ pc' = "running_on"
  /\ UNCHANGED <<cfgVars, lineVars, obsVars, sleepLeft, opencpn_pkill_delay,
                 opencpn_user, shutdown_button, sleep_interval, sample,
                 seqVars, exit_status>>

(* lines 44-46: the output device is opened with initial_value=True, or
   gpiozero raises *)
OpenRunningDevice ==
  /\ pc = "open_running"
  /\ \/ /\ running_device' = "open"
        /\ running_level' = 1
        /\ pc' = "running_on"
        /\ UNCHANGED exit_status
     \/ Exit(uncaught_exit_status) /\ UNCHANGED <<running_device, running_level>>
  /\ UNCHANGED <<cfgVars, lineVars, obsVars, sleepLeft, opencpn_pkill_delay,
                 opencpn_user, shutdown_button, sleep_interval, sample, seqVars>>

(* variant of lines 49-51: running_device.off() in place of on() *)
SetInitialStateOff ==
  /\ pc = "running_on"
  /\ running_level' = 0
  /\ sleep_interval' = SecToMs(idle_sleep_seconds)
  /\ pc' = "poll"
  /\ UNCHANGED <<cfgVars, lineVars, obsVars, sleepLeft, opencpn_pkill_delay,
                 opencpn_user, shutdown_button, running_device, sample,
                 seqVars, exit_status>>

(* lines 49-51: running_device.on(), or gpiozero raises on the write;
   sleep_interval = 1 *)
SetInitialState ==
  /\ pc = "running_on"
  /\ \/ /\ running_level' = 1
        /\ sleep_interval' = SecToMs(idle_sleep_seconds)
        /\ pc' = "poll"
        /\ UNCHANGED exit_status
     \/ Exit(uncaught_exit_status) /\ UNCHANGED <<running_level, sleep_interval>>
  /\ UNCHANGED <<cfgVars, lineVars, obsVars, sleepLeft, opencpn_pkill_delay,
                 opencpn_user, shutdown_button, running_device, sample,
                 seqVars>>

(* ---------------- src/shutdown_monitor.py: the poll loop ---------------- *)

(* variant of lines 53-64: the test of is_held at line 55 is left out *)
PollNoHeldTest ==
  /\ pc = "poll"
  /\ IF is_pressed
     THEN /\ sleep_interval' = DivFloat1000(shutdown_wait_delay)
          /\ sample' = "ActiveHeld"
          /\ triggers' = triggers + 1
          /\ pc' = "pkill"
          /\ UNCHANGED <<sleepLeft, gapPolls>>
     ELSE /\ sleep_interval' = SecToMs(idle_sleep_seconds)
          /\ sample' = "Inactive"
          /\ pc' = "sleep"
          /\ sleepLeft' = sleep_interval'
          /\ gapPolls' = Min(gapPolls + 1, MaxGapPolls)
          /\ UNCHANGED triggers
  /\ UNCHANGED <<cfgVars, lineVars, activeMs, gapMs, lastSpan, before, graceMs,
                 opencpn_pkill_delay, opencpn_user, shutdown_button,
                 running_device, running_level, pkills, pkill_status, graces,
                 poweroffs, poweroff_status, exit_status>>

(* variant of lines 52-64 without the else branch of lines 62-63: an
   inactive sample leaves sleep_interval as it was *)
PollNoIdleReset ==
  /\ pc = "poll"
  /\ IF is_pressed
     THEN /\ sleep_interval' = DivFloat1000(shutdown_wait_delay)
          /\ IF is_held
             THEN /\ sample' = "ActiveHeld"
                  /\ triggers' = triggers + 1
                  /\ pc' = "pkill"
                  /\ UNCHANGED sleepLeft
             ELSE /\ sample' = "ActiveNotYetHeld"
                  /\ pc' = "sleep"
                  /\ sleepLeft' = sleep_interval'
                  /\ UNCHANGED triggers
          /\ UNCHANGED gapPolls
     ELSE /\ UNCHANGED sleep_interval
          /\ sample' = "Inactive"
          /\ pc' = "sleep"
          /\ sleepLeft' = sleep_interval'
          /\ gapPolls' = Min(gapPolls + 1, MaxGapPolls)
          /\ UNCHANGED triggers
  /\ UNCHANGED <<cfgVars, lineVars, activeMs, gapMs, lastSpan, before, graceMs,
                 opencpn_pkill_delay, opencpn_user, shutdown_button,
                 running_device, running_level, pkills, pkill_status, graces,
                 poweroffs, poweroff_status, exit_status>>

(* lines 53-56 and 62-64: one pass of the loop body up to the entry of
   time.sleep, or up to the entry of the shutdown sequence *)
Poll ==
  /\ pc = "poll"
  /\ IF is_pressed
     THEN /\ sleep_interval' = DivFloat1000(shutdown_wait_delay)
          /\ IF is_held
             THEN /\ sample' = "ActiveHeld"
                  /\ triggers' = triggers + 1
                  /\ pc' = "pkill"
                  /\ UNCHANGED sleepLeft
             ELSE /\ sample' = "ActiveNotYetHeld"
                  /\ pc' = "sleep"
                  /\ sleepLeft' = sleep_interval'
                  /\ UNCHANGED triggers
          /\ UNCHANGED gapPolls
     ELSE /\ sleep_interval' = SecToMs(idle_sleep_seconds)
          /\ sample' = "Inactive"
          /\ pc' = "sleep"
          /\ sleepLeft' = sleep_interval'
          /\ gapPolls' = Min(gapPolls + 1, MaxGapPolls)
          /\ UNCHANGED triggers
  /\ UNCHANGED <<cfgVars, lineVars, activeMs, gapMs, lastSpan, before, graceMs,
                 opencpn_pkill_delay, opencpn_user, shutdown_button,
                 running_device, running_level, pkills, pkill_status, graces,
                 poweroffs, poweroff_status, exit_status>>

(* variant: after the grace sleep the line is looked at again, and the
   loop is resumed when it has been released *)
SleepThroughCancellable ==
  /\ Sleeping
  /\ Elapse(sleepLeft)
  /\ sleepLeft' = 0
  /\ IF pc = "sleep" \/ ~ is_pressed
     THEN pc' = "poll" /\ UNCHANGED graces
     ELSE pc' = "poweroff" /\ graces' = graces + 1
  /\ UNCHANGED <<cfgVars, opencpn_pkill_delay, opencpn_user, shutdown_button,
                 running_device, running_level, sleep_interval, sample,
                 triggers, pkills, pkill_status, poweroffs, poweroff_status,
                 exit_status>>

(* time.sleep runs to its end with no edge on the line: line 64 returns to
   line 53, line 58 goes on to line 60 *)
SleepThrough ==
  /\ Sleeping
  /\ Elapse(sleepLeft)
  /\ sleepLeft' = 0
  /\ IF pc = "sleep"
     THEN pc' = "poll" /\ UNCHANGED graces
     ELSE pc' = "poweroff" /\ graces' = graces + 1
  /\ UNCHANGED <<cfgVars, opencpn_pkill_delay, opencpn_user, shutdown_button,
                 running_device, running_level, sleep_interval, sample,
                 triggers, pkills, pkill_status, poweroffs, poweroff_status,
                 exit_status>>

(* ---------------- the shutdown sequence ---------------- *)

(* the exit statuses os.system may report for a command *)
CommandStatuses == {0, 1}

(* line 57: os.system returns the command's status, which is not looked at *)
Pkill ==
  /\ pc = "pkill"
  /\ \E st \in CommandStatuses : pkill_status' = Some(st)
  /\ pkills' = pkills + 1
  /\ pc' = "grace_start"
  /\ UNCHANGED <<cfgVars, lineVars, obsVars, sleepLeft, opencpn_pkill_delay,
                 opencpn_user, shutdown_button, running_device, running_level,
                 sleep_interval, sample, triggers, graces, poweroffs,
                 poweroff_status, exit_status>>

(* line 58: time.sleep(opencpn_pkill_delay), the delay taken as seconds;
   a negative argument raises and nothing catches it *)
GraceSleep ==
  /\ pc = "grace_start"
  /\ IF Val(opencpn_pkill_delay) < 0
     THEN Exit(uncaught_exit_status) /\ UNCHANGED <<sleepLeft, graces>>
     ELSE IF Val(opencpn_pkill_delay) = 0
     THEN /\ pc' = "poweroff"
          /\ graces' = graces + 1
          /\ UNCHANGED <<sleepLeft, exit_status>>
     ELSE /\ pc' = "grace"
          /\ sleepLeft' = SecToMs(Val(opencpn_pkill_delay))
          /\ UNCHANGED <<graces, exit_status>>
  /\ UNCHANGED <<cfgVars, lineVars, obsVars, opencpn_pkill_delay,
                 opencpn_user, shutdown_button, running_device, running_level,
                 sleep_interval, sample, triggers, pkills, pkill_status,
                 poweroffs, poweroff_status>>

(* variant of lines 60-61: the sys.exit(0) of line 61 is left out, so
   control falls to the time.sleep of line 64 *)
PoweroffNoExit ==
  /\ pc = "poweroff"
  /\ \E st \in CommandStatuses : poweroff_status' = Some(st)
  /\ poweroffs' = poweroffs + 1
  /\ pc' = "sleep"
  /\ sleepLeft' = sleep_interval
  /\ UNCHANGED <<cfgVars, lineVars, obsVars, opencpn_pkill_delay,
                 opencpn_user, shutdown_button, running_device, running_level,
                 sleep_interval, sample, triggers, pkills, pkill_status,
                 graces, exit_status>>

(* lines 60-61: os.system returns the command's status, which is not looked
   at; sys.exit(0) *)
Poweroff ==
  /\ pc = "poweroff"
  /\ \E st \in CommandStatuses : poweroff_status' = Some(st)
  /\ poweroffs' = poweroffs + 1
  /\ Exit(poweroff_exit_status)
  /\ UNCHANGED <<cfgVars, lineVars, obsVars, sleepLeft, opencpn_pkill_delay,
                 opencpn_user, shutdown_button, running_device, running_level,
                 sleep_interval, sample, triggers, pkills, pkill_status,
                 graces>>

(* ---------------- the specification ---------------- *)

Scripts == {"shutdown_monitor.py", "shutdown.py"}
Interpreters == {"py2", "py3"}

Init ==
  /\ script \in Scripts
  /\ interp \in Interpreters
  /\ environ \in {e \in Environments : WellTyped(e)}
  /\ pc = IF script = "shutdown.py" THEN "main_call" ELSE "env_delay"
  /\ opencpn_pkill_delay = Nil
  /\ opencpn_user = Nil
  /\ shutdown_button = "none"
  /\ pin = 1
  /\ held = FALSE
  /\ holdLeft = Nil
  /\ running_device = "none"
  /\ running_level = 0
  /\ sleep_interval = 0
  /\ sleepLeft = 0
  /\ sample = "none"
  /\ triggers = 0
  /\ pkills = 0
  /\ pkill_status = Nil
  /\ graces = 0
  /\ poweroffs = 0
  /\ poweroff_status = Nil
  /\ exit_status = Nil
  /\ activeMs = 0
  /\ gapMs = 0
  /\ gapPolls = 0
  /\ lastSpan = 0
  /\ before = "other"
  /\ graceMs = 0

Next ==
  \/ ShutdownPyMainCall
  \/ GetPkillDelay
  \/ GetPkillUser
  \/ OpenShutdownButton
  \/ OpenRunningDevice
  \/ SetInitialState
  \/ Poll
  \/ SleepThrough
  \/ PinEdge
  \/ Pkill
  \/ GraceSleep
  \/ Poweroff

Spec == Init /\ [][Next]_vars

(* the steps of the process itself: every statement of the script returns
   and the interpreter goes on to the next one; the line is the
   environment's and owes no step *)
ProgramStep ==
  \/ ShutdownPyMainCall
  \/ GetPkillDelay
  \/ GetPkillUser
  \/ OpenShutdownButton
  \/ OpenRunningDevice
  \/ SetInitialState
  \/ Poll
  \/ SleepThrough
  \/ Pkill
  \/ GraceSleep
  \/ Poweroff

FairSpec == Spec /\ WF_vars(ProgramStep)

(* ---------------- properties ---------------- *)

(* the step is one pass of the poll loop body *)
PollStep == pc = "poll" /\ pc' # "poll"

(* the electrical level at which the hat leaves the line when it asks for
   nothing: shutdown is signalled by pulling the line low *)
LineInactive == pin = 1
LineActive == pin = 0

Triggered == triggers > 0
Exited == pc = "exited"

(* C1: once the shutdown sequence is triggered, the termination request, the
   grace pause and the power-off happen in that order and each exactly once
   per run, whatever the termination request reports. *)
C1_SequenceInOrderExactlyOnce ==
  /\ poweroffs <= graces /\ graces <= pkills /\ pkills <= triggers
  /\ triggers <= 1
  /\ (Exited /\ Triggered) => (pkills = 1 /\ graces = 1 /\ poweroffs = 1)

(* C2: within one continuous active span, a poll taken before the line has
   been active for shutdown_pulse_minimum ms finds ActiveNotYetHeld and does
   not trigger; a poll taken at or after it finds ActiveHeld and triggers. *)
C2_HeldExactlyFromMinimum ==
  [][(PollStep /\ LineActive) =>
       IF activeMs < shutdown_pulse_minimum
       THEN sample' = "ActiveNotYetHeld" /\ triggers' = triggers /\ pc' = "sleep"
       ELSE sample' = "ActiveHeld" /\ triggers' = triggers + 1 /\ pc' = "pkill"]_vars

(* C2 witness: a poll taken exactly shutdown_pulse_minimum ms into a span
   has found ActiveHeld and entered the shutdown sequence. *)
C2_Witness ==
  /\ pc = "pkill" /\ sample = "ActiveHeld"
  /\ LineActive /\ activeMs = shutdown_pulse_minimum
  /\ sleep_interval = shutdown_wait_delay /\ sleepLeft = 0

(* C3: a poll that reads the line inactive finds Inactive whatever came
   before: the Button holds no held state and no running hold timer, and the
   poll does not trigger. *)
C3_InactiveSampleResets ==
  [][(PollStep /\ LineInactive) =>
       /\ sample' = "Inactive"
       /\ triggers' = triggers
       /\ pc' = "sleep"
       /\ ~held /\ holdLeft = Nil
       /\ ~held' /\ holdLeft' = Nil]_vars

(* C3 witness: the first poll after a span of shutdown_pulse_minimum - 1
   ms has found the line inactive and gone to sleep. *)
C3_Witness ==
  /\ sample = "Inactive" /\ pc = "sleep"
  /\ lastSpan = shutdown_pulse_minimum - 1
  /\ gapPolls = 1 /\ ~Triggered

(* C4: an inactive stretch restarts the hold wait from zero: the Button is
   held only when the present span alone has lasted shutdown_pulse_minimum
   ms, and the sequence is triggered only by a poll in such a span. *)
C4_GlitchRestartsHold ==
  [][/\ held' => (LineActive' /\ activeMs' >= shutdown_pulse_minimum)
     /\ triggers' > triggers =>
          (LineActive /\ activeMs >= shutdown_pulse_minimum)]_vars

(* C4 witness: two spans of shutdown_pulse_minimum - 1 ms with one inactive
   sample between them have both ended; the second was polled; nothing was
   triggered. *)
C4_Witness ==
  /\ LineInactive
  /\ before = "short"
  /\ lastSpan = shutdown_pulse_minimum - 1
  /\ sample = "ActiveNotYetHeld"
  /\ ~Triggered

(* C5: after 300 ms active and 5 ms inactive, no poll of the second span
   finds ActiveHeld or triggers before that span alone has lasted
   shutdown_pulse_minimum ms, whether or not a poll fell into the gap. *)
C5_BounceNoEarlyHold ==
  [][(PollStep /\ LineActive /\ before \in {"bounce", "bounce_polled"}
        /\ activeMs < shutdown_pulse_minimum) =>
       (sample' = "ActiveNotYetHeld" /\ ~held /\ triggers' = triggers)]_vars

(* C5 witness: the second span, entered after a 5 ms gap that no poll fell
   into, has been polled short of the hold time and has then triggered
   between 600 and 650 ms after its own start. *)
C5_Witness ==
  /\ pc = "pkill"
  /\ before = "bounce"
  /\ LineActive
  /\ activeMs >= shutdown_pulse_minimum /\ activeMs < 650

(* C6: a single continuous active pulse of 650 ms triggers the shutdown
   sequence exactly once, wherever it starts relative to the idle poll. *)
C6_PulseAlwaysTriggers ==
  (LineInactive /\ lastSpan = 650) => triggers = 1

(* C7: the shutdown sequence is entered at most once, and once it is entered
   the poll loop never resumes: no further poll, no further poll sleep, no
   second termination request or power-off. *)
C7_Latched ==
  [][/\ triggers' <= 1 /\ pkills' <= 1 /\ poweroffs' <= 1
     /\ Triggered =>
          /\ triggers' = triggers
          /\ sample' = sample
          /\ sleep_interval' = sleep_interval
          /\ pc' \notin {"poll", "sleep"}]_vars

(* C7 witness: the run has ended with the power-off issued once while the
   line was still active. *)
C7_Witness ==
  /\ Exited /\ Triggered /\ poweroffs = 1 /\ LineActive /\ held

(* C8 as claimed: when the power-off command has returned, the process ends
   with a non-zero status. *)
C8_PoweroffReturnIsFatal ==
  (Exited /\ poweroffs > 0) => Val(exit_status) # 0

(* C8 amended: when the power-off command has returned, with whatever
   result, the process has ended with status 0; it was issued once, and the
   loop is not re-entered. *)
C8_PoweroffThenExitZero ==
  poweroffs > 0 =>
    /\ Exited
    /\ exit_status = Some(0)
    /\ poweroffs = 1

(* C8 witness: the power-off command reported failure and the run ended. *)
C8_Witness ==
  Exited /\ poweroff_status = Some(1)

(* a required environment variable is not set *)
MissingKey ==
  ~ has_key(environ, kpkill_delay) \/ ~ has_key(environ, kpkill_user)

NoHardwareTouched ==
  /\ shutdown_button = "none"
  /\ running_device = "none"
  /\ running_level = 0
  /\ sample = "none"

NoCommandIssued == pkills = 0 /\ poweroffs = 0 /\ triggers = 0

(* C9: with a required environment variable missing, no device is opened,
   the running output is never driven, the line is never sampled, no command
   is issued, and the process stops only with a non-zero status. *)
C9_MissingKeyIsFatal ==
  MissingKey =>
    /\ NoHardwareTouched
    /\ NoCommandIssued
    /\ pc \in {"main_call", "env_delay", "env_user", "exited"}
    /\ Exited => Val(exit_status) # 0

(* C9 witness: under Python 2 the delay was read and OPENCPN_USER was found
   missing; the monitor has exited. *)
C9_Witness ==
  /\ script = "shutdown_monitor.py" /\ interp = "py2"
  /\ ~ has_key(environ, kpkill_user)
  /\ opencpn_pkill_delay # Nil
  /\ Exited

(* a configuration value is present and not valid: the delay is no
   non-negative integer, or the user is empty *)
InvalidValue ==
  \/ /\ has_key(environ, kpkill_delay)
     /\ (IntParses(environ[kpkill_delay]) => IntOf(environ[kpkill_delay]) < 0)
  \/ /\ has_key(environ, kpkill_user)
     /\ environ[kpkill_user] = <<>>

(* C10: an invalid configuration value is rejected before any device is
   opened and before any command is issued. *)
C10_InvalidValueRejected ==
  InvalidValue => (NoHardwareTouched /\ NoCommandIssued)

(* the process is in the poll loop: at the poll or in the poll sleep *)
InLoop == pc \in {"poll", "sleep"}

(* C11: the running output is asserted before the first sample of the
   shutdown line, and stays asserted while the poll loop runs and through
   the shutdown sequence, whatever levels are sampled. *)
C11_RunningStaysAsserted ==
  (InLoop \/ sample # "none") =>
    (running_device = "open" /\ running_level = 1)

(* C11 witness: after a completed 300 ms span and a later poll of an active
   line, the loop sleeps with the running output still asserted. *)
C11_Witness ==
  /\ pc = "sleep" /\ sample = "ActiveNotYetHeld"
  /\ lastSpan = 300
  /\ running_level = 1

(* the process is inside the shutdown sequence or has left it *)
InSequence == pc \in {"pkill", "grace_start", "grace", "poweroff", "exited"}

(* C12: once the sequence is triggered the process never returns to the
   loop; a change of the line moves nothing in the sequence; and a triggered
   run ends with the power-off issued or with a non-zero (fatal) status. *)
C12_NoCancel ==
  [][Triggered =>
       /\ InSequence /\ InSequence'
       /\ pin' # pin => (pc' = pc /\ pkills' = pkills /\ graces' = graces
                            /\ poweroffs' = poweroffs /\ sample' = sample)
       /\ Exited' => (poweroffs' = 1 \/ Val(exit_status') # 0)]_vars

(* C12 witness: the line was released after the trigger, and the run has
   ended with the power-off issued. *)
C12_Witness ==
  /\ Exited /\ Triggered /\ poweroffs = 1
  /\ LineInactive /\ lastSpan = 650

(* C13: a run in which the power-off command reported failure ends with a
   status other than the one a missing environment variable ends with. *)
C13_PoweroffFailureStatusDistinct ==
  (Exited /\ poweroff_status = Some(1)) =>
    exit_status # Some(config_exit_status)

(* C13 witness: both commands of the sequence reported failure and the run
   has ended. *)
C13_Witness ==
  /\ Exited /\ poweroff_status = Some(1) /\ pkill_status = Some(1)
  /\ exit_status # Nil

(* C14 as claimed: the grace sleep lasts as many milliseconds as the
   configured delay says. *)
C14_GraceIsDelayMilliseconds ==
  graces = 1 => graceMs = Val(opencpn_pkill_delay)

(* C14 amended: the grace sleep lasts as many seconds as the configured
   delay says, 1000 ms for each unit, and the power-off is not issued
   before it is over. *)
C14_GraceIsDelaySeconds ==
  /\ graces = 1 => graceMs = Val(opencpn_pkill_delay) * MsPerSec
  /\ pc = "grace" => (poweroffs = 0 /\ graceMs + sleepLeft
                                       = Val(opencpn_pkill_delay) * MsPerSec)

(* C14 witness: with the delay 1 the grace sleep is over after 1000 ms and
   the power-off is about to be issued. *)
C14_Witness ==
  /\ pc = "poweroff" /\ graces = 1
  /\ opencpn_pkill_delay = Some(1)
  /\ graceMs = 1000

(* the run has ended on a device that could not be opened or written *)
ButtonOpenFailed ==
  Exited /\ opencpn_user # Nil /\ shutdown_button = "none"
RunningOpenFailed ==
  Exited /\ shutdown_button = "open" /\ running_device = "none"
RunningWriteFailed ==
  Exited /\ running_device = "open" /\ sleep_interval = 0

(* C15: the poll loop is entered only with both devices open; a run that
   fails to open or to write a device ends with a non-zero status, the line
   never sampled and no command issued. *)
C15_HardwareErrorIsFatal ==
  /\ (shutdown_button = "none" \/ running_device = "none") =>
       (~ InLoop /\ sample = "none" /\ NoCommandIssued)
  /\ (ButtonOpenFailed \/ RunningOpenFailed \/ RunningWriteFailed) =>
       (Val(exit_status) # 0 /\ sample = "none" /\ NoCommandIssued)

(* C15 witness: the Button was opened, the output device could not be, and
   the run has ended. *)
C15_Witness ==
  RunningOpenFailed /\ exit_status = Some(uncaught_exit_status)

(* C16: every poll that goes on to sleep sets the interval from the sample
   it has just taken, 1000 ms for Inactive and shutdown_wait_delay ms for
   ActiveNotYetHeld, and sleeps exactly that long, whatever the interval was
   before; in the loop the interval is always one of the two. *)
C16_IntervalFromSampleOnly ==
  [][/\ (PollStep /\ pc' = "sleep") =>
          /\ sleepLeft' = sleep_interval'
          /\ LineInactive => (sample' = "Inactive" /\ sleep_interval' = 1000)
          /\ LineActive => (sample' = "ActiveNotYetHeld"
                               /\ sleep_interval' = shutdown_wait_delay)
     /\ InLoop' => sleep_interval' \in {1000, shutdown_wait_delay}]_vars

(* C16 witness: a poll has sampled the line 5 ms after a 300 ms active span
   ended, and the sleep it started is the full 1000 ms. *)
C16_Witness ==
  /\ pc = "sleep" /\ sample = "Inactive" /\ LineInactive
  /\ lastSpan = 300 /\ gapMs = 5 /\ gapPolls = 1
  /\ sleep_interval = 1000 /\ sleepLeft = sleep_interval

(* the configuration the loop runs with is a valid one *)
ValidConfiguration ==
  opencpn_pkill_delay # Nil /\ Val(opencpn_pkill_delay) >= 0 /\ opencpn_user # Nil

(* C17: with a valid configuration and the process scheduled fairly, a poll
   loop that finds the line active either sees it released again or goes on
   to trigger the sequence and issue the power-off: a line that stays active
   forever is always answered by the power-off. *)
C17_HeldForeverPowersOff ==
  (InLoop /\ LineActive /\ ValidConfiguration)
     ~> (LineInactive \/ (Triggered /\ poweroffs = 1))

(* C17 witness: the line went active and has stayed active for MaxSpan ms or
   more, through the trigger, the grace sleep and the power-off. *)
C17_Witness ==
  /\ Exited /\ ValidConfiguration /\ LineActive /\ activeMs = MaxSpan
  /\ Triggered /\ graces = 1 /\ poweroffs = 1

(* C18: a run of src/shutdown.py ends only as the loop of
   src/shutdown_monitor.py ends, less the pkill and the grace sleep: after a
   poll that found the Button held, with the power-off issued and exit
   status 0. *)
C18_ShutdownPySameLoop ==
  (script = "shutdown.py" /\ Exited) =>
     /\ sample = "ActiveHeld" /\ Triggered
     /\ pkills = 0 /\ graces = 0
     /\ poweroffs = 1 /\ exit_status = Some(0)

====
